---------------------------- MODULE Spec2Model ----------------------------
(***************************************************************************)
(* Model of the bunnyhop connection pool (pool.go) and of the part of the  *)
(* single-connection client (client.go) the pool depends on.               *)
(*                                                                         *)
(* Goroutines that differ only in the node they work on are counted per    *)
(* node: connectToNode invocations waiting for the node mutex, the         *)
(* invocation inside client.Connect, armed retry timers, watchers, queued  *)
(* checkNodeHealth goroutines.  node.mutex is held across steps only by    *)
(* connectToNode (during client.Connect); every other critical section on  *)
(* it contains no blocking call and is one step guarded by the mutex being *)
(* free.  p.mutex is held across steps only by GetClient (read lock).      *)
(***************************************************************************)
EXTENDS Integers, Sequences, FiniteSets, TLC

\* ---------------------------------------------------------------- bounds
MaxRequests == 3
MaxFailures == 1
MaxLosses == 1
MaxQueued == 1
MaxTimers == 1
MaxWatchers == 2
MaxChecks == 1
MaxStarts == 1
MaxStartCalls == 2
MaxDrops == 2
MaxCloses == 2
MaxWeight == 3

\* concurrent goroutines of the application that call GetClient
Callers == {"g1", "g2"}

\* the caller of an application that calls GetClient from one goroutine
SerialCaller == "g1"

\* weights given to SetNodeWeight
WeightValues == 0..MaxWeight

\* SetNodeWeight takes any int: weights of either sign
SignedWeights == -1..1

\* PoolConfig.URLs of the pools checked
OneURL == <<"amqp://a">>
TwoURLs == <<"amqp://a", "amqp://b">>

\* LoadBalanceStrategy values
RoundRobin == "RoundRobin"
Random == "Random"
LeastUsed == "LeastUsed"
WeightedRoundRobin == "WeightedRoundRobin"
LoadBalanceStrategy == {RoundRobin, Random, LeastUsed, WeightedRoundRobin}

\* results of GetClient
NoResult == "none"
Ok == "ok"
ErrPoolClosed == "pool is closed"
ErrNoHealthyNodes == "no healthy nodes available"

\* rand.Intn(n) with n <= 0 panics; GetClient has no recover
IntnPanic == "panic: invalid argument to Intn"

\* the nil error of Start and SetNodeWeight
NoError == "nil"

\* results of Client.GetConnection: the connection or the error
Connection == "connection"
ErrNotConnected == "client is not connected"
NilDereference == "panic: nil pointer dereference"

\* no GetConnection call has been made
NoCall == [connected |-> FALSE, res |-> NoResult]

VARIABLES
  \* ---- Pool
  strategy,        \* p.config.LoadBalanceStrategy
  closed,          \* p.closed; p.ctx is cancelled in the same critical section
  healthTicker,    \* p.healthTicker: "nil", "running", "stopped"
  tickC,           \* a tick is buffered in p.healthTicker.C
  probers,         \* number of live healthCheckWorker goroutines
  starts,          \* number of Start calls that returned nil
  roundRobin,      \* p.roundRobin
  totalRequests,   \* p.totalRequests
  totalFailures,   \* p.totalFailures
  \* ---- NodeConnection, per node
  Client,          \* node.Client: FALSE = nil, TRUE = a client
  healthy,         \* node.healthy
  weight,          \* node.weight
  totalUsed,       \* node.totalUsed
  failures,        \* node.failures
  connecting,      \* node.connecting
  nodeMutex,       \* node.mutex write-held by a connectToNode run
  \* ---- goroutines and timers, per node
  connQueued,      \* connectToNode invocations blocked at node.mutex.Lock()
  connDialing,     \* connectToNode invocations inside client.Connect
  retryTimers,     \* armed time.AfterFunc retry timers
  watchers,        \* watchNodeConnection goroutines waiting for a tick
  watchersLost,    \* watchers between RUnlock and Lock (loss observed)
  checksQueued,    \* checkNodeHealth goroutines blocked at node.mutex.Lock()
  \* ---- the Client held in node.Client
  clConnected,     \* Client.IsConnected()
  losses,          \* connection losses so far (environment budget)
  \* ---- GetClient calls, per caller
  gcPc,            \* "idle", "rlock", "snap", "select", "update"
  gcIdx,           \* loop index of getHealthyNodes
  gcHealthy,       \* healthyNodes being built
  gcSel,           \* selectedNode
  gcRes,           \* result of the last finished call
  gcRet,           \* client handle returned by the last finished call
  \* ---- observers
  gcSeen,          \* nodes that satisfied the healthy predicate when scanned
  gcAfterClose,    \* the call was invoked after Close had returned
  gcStable,        \* no membership change since the call was invoked
  gcSerial,        \* no other call overlapped this call
  okReturns,       \* number of GetClient calls that returned a client
  rrHist,          \* last returns under RoundRobin since the last membership change
  \* ---- Close calls
  closes,          \* number of Close calls that returned
  teardowns,       \* number of times the teardown of Close was executed
  closeRes,        \* result of the last Close call
  \* ---- connectToNode invocations launched during a run, per node
  connLate,        \* of connQueued, those launched while a run was in flight
  \* ---- brokers
  unreachable,     \* nodes whose broker never accepts a connection
  \* ---- NodeConnection, per node (fixed by NewPool)
  URL,             \* node.URL
  \* ---- results of the last call of the other API functions
  startRes,        \* Pool.Start
  swRes,           \* Pool.SetNodeWeight
  gconn,           \* Client.GetConnection on a handle obtained from the pool
  \* ---- the clients a node has had
  clClosed,        \* Client.Close has been called on the client in node.Client
  orphans,         \* clients replaced in node.Client without a Close call
  dials,           \* connectToURL calls made by the last failed Client.Connect
  \* ---- one single-connection Client and its goroutines (client.go)
  cl

\* indices of p.nodes, fixed by NewPool
Nodes == DOMAIN healthy
NodeCount == Cardinality(Nodes)

poolVars == <<strategy, closed, healthTicker, tickC, probers, starts, roundRobin,
              totalRequests, totalFailures>>
nodeVars == <<Client, healthy, weight, totalUsed, failures, connecting, nodeMutex>>
taskVars == <<connQueued, connDialing, retryTimers, watchers, watchersLost,
              checksQueued>>
clientVars == <<clConnected, losses>>
callVars == <<gcPc, gcIdx, gcHealthy, gcSel, gcRes, gcRet>>
obsVars == <<gcSeen, gcAfterClose, gcStable, gcSerial, okReturns, rrHist>>
closeVars == <<closes, teardowns, closeRes>>
brokerVars == <<unreachable>>
resVars == <<startRes, swRes, gconn>>
handleVars == <<clClosed, orphans, dials>>
vars == <<poolVars, nodeVars, taskVars, clientVars, callVars, obsVars, closeVars,
          connLate, brokerVars, cl, URL, resVars, handleVars>>

\* everything but the single-connection client
poolSide == <<poolVars, nodeVars, taskVars, clientVars, callVars, obsVars,
              closeVars, connLate, brokerVars, URL, resVars, handleVars>>

Min(a, b) == IF a < b THEN a ELSE b

RECURSIVE SumTo(_, _)
SumTo(f, k) == IF k = 0 THEN 0 ELSE SumTo(f, k - 1) + f[k]

\* ------------------------------------------------------------ predicates
\* Client.IsConnected on the client of node n
IsConnected(n) == clConnected[n]

\* variant: the IsConnected test of line 278 is left out
IsHealthyNodeNoConnCheck(n) == healthy[n] /\ Client[n]

\* the condition of getHealthyNodes / GetHealthyNodeCount
IsHealthyNode(n) == healthy[n] /\ Client[n] /\ IsConnected(n)

\* lines 432-445: GetHealthyNodeCount counts, under each node's read lock,
\* the nodes with healthy set, a client present and the client connected
GetHealthyNodeCount == Cardinality({n \in Nodes : IsHealthyNode(n)})

\* lines 350-365: NodeStats.Healthy copies node.healthy, and GetStats
\* increments HealthyNodes for every node whose NodeStats.Healthy is set
GetStatsHealthyNodes == Cardinality({n \in Nodes : healthy[n]})

HealthySet == {n \in Nodes : healthy[n] /\ Client[n] /\ clConnected[n]}

\* p.ctx.Done() is readable
ctxDone == closed

\* callers that hold p.mutex.RLock
PoolReaders ==
  {c \in Callers : gcPc[c] \in {"snap", "select", "snapRR", "selectRR", "update"}}

\* node.mutex can be acquired (read or write)
NodeMutexFree(n) == ~nodeMutex[n]

\* ------------------------------------------------------------- observers
\* a change of the healthy set ends every window of stable membership
\* (windows are observed under RoundRobin only)
NoteMembership ==
  IF strategy = RoundRobin /\ HealthySet' # HealthySet
  THEN /\ gcStable' = [c \in Callers |-> FALSE]
       /\ rrHist' = <<>>
  ELSE UNCHANGED <<gcStable, rrHist>>

BackgroundObs ==
  /\ NoteMembership
  /\ UNCHANGED <<gcSeen, gcAfterClose, gcSerial, okReturns>>

\* ------------------------------------------------------------ NewPool
\* variant: NewPool launches connectToNode for every node
ConnectorsOfNewPoolLaunched(urls) == [n \in 1..Len(urls) |-> 1]

\* connectToNode invocations launched by NewPool: none
ConnectorsOfNewPool(urls) == [n \in 1..Len(urls) |-> 0]

NewPool(urls, lb) ==
  /\ strategy = lb
  /\ closed = FALSE
  /\ healthTicker = "nil"
  /\ tickC = FALSE
  /\ probers = 0
  /\ starts = 0
  /\ roundRobin = 0
  /\ totalRequests = 0
  /\ totalFailures = 0
  /\ Client = [n \in 1..Len(urls) |-> FALSE]
  /\ healthy = [n \in 1..Len(urls) |-> FALSE]
  /\ weight = [n \in 1..Len(urls) |-> 1]
  /\ totalUsed = [n \in 1..Len(urls) |-> 0]
  /\ failures = [n \in 1..Len(urls) |-> 0]
  /\ connecting = [n \in 1..Len(urls) |-> FALSE]
  /\ nodeMutex = [n \in 1..Len(urls) |-> FALSE]
  /\ connQueued = ConnectorsOfNewPool(urls)
  /\ connDialing = [n \in 1..Len(urls) |-> 0]
  /\ retryTimers = [n \in 1..Len(urls) |-> 0]
  /\ watchers = [n \in 1..Len(urls) |-> 0]
  /\ watchersLost = [n \in 1..Len(urls) |-> 0]
  /\ checksQueued = [n \in 1..Len(urls) |-> 0]
  /\ clConnected = [n \in 1..Len(urls) |-> FALSE]
  /\ losses = 0
  /\ gcPc = [c \in Callers |-> "idle"]
  /\ gcIdx = [c \in Callers |-> 0]
  /\ gcHealthy = [c \in Callers |-> <<>>]
  /\ gcSel = [c \in Callers |-> 0]
  /\ gcRes = [c \in Callers |-> NoResult]
  /\ gcRet = [c \in Callers |-> FALSE]
  /\ gcSeen = [c \in Callers |-> {}]
  /\ gcAfterClose = [c \in Callers |-> FALSE]
  /\ gcStable = [c \in Callers |-> FALSE]
  /\ gcSerial = [c \in Callers |-> FALSE]
  /\ okReturns = 0
  /\ rrHist = <<>>
  /\ closes = 0
  /\ teardowns = 0
  /\ closeRes = NoResult
  /\ connLate = [n \in 1..Len(urls) |-> 0]
  /\ URL = urls
  /\ startRes = NoResult
  /\ swRes = NoResult
  /\ gconn = NoCall
  /\ clClosed = [n \in 1..Len(urls) |-> FALSE]
  /\ orphans = [n \in 1..Len(urls) |-> 0]
  /\ dials = [n \in 1..Len(urls) |-> 0]

\* NewClient lines 36-58: no connection, not connected, no attempt counted,
\* a live context, empty error channels, no goroutine and no timer.
\*   workers     live reconnectWorker goroutines
\*   reconnects  reconnect invocations launched (go c.reconnect(), or a fired
\*               AfterFunc) that have not taken c.mutex yet
\*   dialing     reconnect invocations between their Unlock and c.Connect
\*   timers      armed time.AfterFunc(ReconnectInterval, c.reconnect) timers
\*   tries       connectToURL calls made by reconnect since the last success
\*   drops       connections dropped by the broker or the network
\*   closed      Client.Close has returned
NewClient ==
  [connected |-> FALSE, connection |-> "nil", reconnectAttempts |-> 0,
   cancelled |-> FALSE, connectionErrors |-> 0, channelErrors |-> 0,
   workers |-> 0, reconnects |-> 0, dialing |-> 0, timers |-> 0,
   tries |-> 0, drops |-> 0, closed |-> FALSE]

\* the brokers in down refuse every connection, the others accept
Brokers(down) == unreachable = down

Init == (\E lb \in LoadBalanceStrategy : NewPool(TwoURLs, lb)) /\ Brokers({}) /\ cl = NewClient

InitOne == NewPool(OneURL, RoundRobin) /\ Brokers({}) /\ cl = NewClient

\* one node whose broker stays unreachable
InitDown == NewPool(OneURL, RoundRobin) /\ Brokers(1..Len(OneURL)) /\ cl = NewClient

InitLeastUsed == NewPool(TwoURLs, LeastUsed) /\ Brokers({}) /\ cl = NewClient

InitWeighted == NewPool(TwoURLs, WeightedRoundRobin) /\ Brokers({}) /\ cl = NewClient

InitFresh == NewPool(OneURL, Random) /\ Brokers({}) /\ cl = NewClient

InitUse == (\E lb \in LoadBalanceStrategy : NewPool(OneURL, lb)) /\ Brokers({}) /\ cl = NewClient

\* go p.connectToNode(node): 1 if a run for the node is in flight when the
\* invocation is launched
LaunchedLate(n) == IF connDialing[n] > 0 THEN 1 ELSE 0

\* ------------------------------------------------------------ Start
\* variant: Start does not test p.closed
StartOnClosedIgnored == FALSE

\* the p.closed test of line 64
StartOnClosed == closed

\* Pool.Start: takes p.mutex.Lock, so no GetClient holds the read lock; on a
\* closed pool it returns the error, otherwise it launches connectToNode for
\* every node, the ticker and healthCheckWorker
StartWithin(calls) ==
  /\ PoolReaders = {}
  /\ IF StartOnClosed
     THEN /\ startRes' = ErrPoolClosed
          /\ UNCHANGED <<connQueued, connLate, healthTicker, probers, starts>>
     ELSE /\ starts < calls
          /\ \A n \in Nodes : connQueued[n] < MaxQueued
          /\ connQueued' = [n \in Nodes |-> connQueued[n] + 1]
          /\ connLate' = [n \in Nodes |-> connLate[n] + LaunchedLate(n)]
          /\ healthTicker' = "running"
          /\ probers' = probers + 1
          /\ starts' = starts + 1
          /\ startRes' = NoError
  /\ UNCHANGED <<strategy, closed, tickC, roundRobin, totalRequests, totalFailures>>
  /\ UNCHANGED <<nodeVars, connDialing, retryTimers, watchers, watchersLost,
                 checksQueued, clientVars, callVars, obsVars>>
  /\ UNCHANGED <<closeVars, brokerVars, cl, URL, swRes, gconn, handleVars>>

\* Start called by an application that starts its pool once
Start == StartWithin(MaxStarts)

\* Start called by an application that calls it again on a running pool
StartAgain == StartWithin(MaxStartCalls)

\* Start called by an application that does not start a pool it has closed
StartOpen == ~closed /\ Start

\* ------------------------------------------------------------ connectToNode
\* variant: client.Connect is entered without node.mutex and without the
\* re-entrancy check
connectToNodeNoMutex(n) ==
  /\ connQueued[n] > 0
  /\ connQueued' = [connQueued EXCEPT ![n] = @ - 1]
  /\ \E late \in BOOLEAN :
       /\ IF late THEN connLate[n] > 0 ELSE connQueued[n] > connLate[n]
       /\ connLate' = [connLate EXCEPT ![n] = IF late THEN @ - 1 ELSE @]
  /\ connDialing' = [connDialing EXCEPT ![n] = @ + 1]
  /\ connecting' = connecting
  /\ nodeMutex' = [nodeMutex EXCEPT ![n] = TRUE]
  /\ UNCHANGED <<poolVars, Client, healthy, weight, totalUsed, failures,
                 retryTimers, watchers, watchersLost, checksQueued,
                 clientVars, callVars, obsVars>>
  /\ UNCHANGED <<closeVars, brokerVars, cl, URL, resVars, handleVars>>

\* lines 83-102: Lock, the re-entrancy check, client.Connect is entered
connectToNode(n) ==
  /\ connQueued[n] > 0
  /\ NodeMutexFree(n)
  /\ connQueued' = [connQueued EXCEPT ![n] = @ - 1]
  /\ \E late \in BOOLEAN :
       /\ IF late THEN connLate[n] > 0 ELSE connQueued[n] > connLate[n]
       /\ connLate' = [connLate EXCEPT ![n] = IF late THEN @ - 1 ELSE @]
  /\ IF connecting[n]
     THEN UNCHANGED <<connecting, nodeMutex, connDialing>>
     ELSE /\ connecting' = [connecting EXCEPT ![n] = TRUE]
          /\ nodeMutex' = [nodeMutex EXCEPT ![n] = TRUE]
          /\ connDialing' = [connDialing EXCEPT ![n] = @ + 1]
  /\ UNCHANGED <<poolVars, Client, healthy, weight, totalUsed, failures,
                 retryTimers, watchers, watchersLost, checksQueued,
                 clientVars, callVars, obsVars>>
  /\ UNCHANGED <<closeVars, brokerVars, cl, URL, resVars, handleVars>>

\* Config.MaxReconnectAttempt of the clients: the default NewClient fills in
\* (client.go 41-43) when PoolConfig leaves it 0
MaxReconnectAttempt == 10

\* Config.URLs of the client connectToNode creates for node n (lines 94-100)
ClientURLs(n) == <<URL[n]>>

\* Client.Connect, client.go 71-82: connectToURL is called once for every
\* URL of the client; when all have failed the error is returned
ConnectAttempts(n) == Len(ClientURLs(n))

\* variant: the old client is replaced without being closed
CloseOldClientSkipped(n) ==
  orphans' = [orphans EXCEPT ![n] = IF Client[n] /\ ~clClosed[n] THEN @ + 1 ELSE @]

\* lines 115-118: the client in node.Client, if any, is closed before it is
\* replaced
CloseOldClient(n) == UNCHANGED orphans

\* variant: connectToNode takes p.mutex.Lock before it returns
ConnectorTakesNoPoolLockViolated == PoolReaders = {}

\* lines 82-126: connectToNode holds node.mutex and never takes p.mutex
ConnectorTakesNoPoolLock == TRUE

\* variant: the failure is not counted
CountFailureSkipped(n) == UNCHANGED failures

\* line 105: atomic.AddInt64(&node.failures, 1)
CountFailure(n) == failures' = [failures EXCEPT ![n] = Min(@ + 1, MaxFailures)]

\* variant: the failure path returns without releasing node.mutex
connectFailedKeepsMutex(n) ==
  /\ connDialing[n] > 0
  /\ n \in unreachable \/ SumTo(failures, NodeCount) < MaxFailures
  /\ retryTimers[n] < MaxTimers
  /\ failures' = [failures EXCEPT ![n] = Min(@ + 1, MaxFailures)]
  /\ healthy' = [healthy EXCEPT ![n] = FALSE]
  /\ retryTimers' = [retryTimers EXCEPT ![n] = @ + 1]
  /\ connDialing' = [connDialing EXCEPT ![n] = @ - 1]
  /\ UNCHANGED <<connecting, nodeMutex>>
  /\ UNCHANGED <<poolVars, Client, weight, totalUsed, connQueued, watchers,
                 watchersLost, checksQueued, clientVars, callVars>>
  /\ BackgroundObs
  /\ dials' = [dials EXCEPT ![n] = ConnectAttempts(n)]
  /\ UNCHANGED <<closeVars, connLate, brokerVars, cl, URL, resVars, clClosed, orphans>>

\* lines 102-113: client.Connect failed
connectFailed(n) ==
  /\ connDialing[n] > 0
  /\ ConnectorTakesNoPoolLock
  /\ n \in unreachable \/ SumTo(failures, NodeCount) < MaxFailures
  /\ retryTimers[n] < MaxTimers
  /\ CountFailure(n)
  /\ healthy' = [healthy EXCEPT ![n] = FALSE]
  /\ retryTimers' = [retryTimers EXCEPT ![n] = @ + 1]
  /\ connDialing' = [connDialing EXCEPT ![n] = @ - 1]
  /\ connecting' = [connecting EXCEPT ![n] = FALSE]
  /\ nodeMutex' = [nodeMutex EXCEPT ![n] = FALSE]
  /\ UNCHANGED <<poolVars, Client, weight, totalUsed, connQueued, watchers,
                 watchersLost, checksQueued, clientVars, callVars>>
  /\ BackgroundObs
  /\ dials' = [dials EXCEPT ![n] = ConnectAttempts(n)]
  /\ UNCHANGED <<closeVars, connLate, brokerVars, cl, URL, resVars, clClosed, orphans>>

\* variant: the success path returns without releasing node.mutex
connectSucceededKeepsMutex(n) ==
  /\ connDialing[n] > 0
  /\ n \notin unreachable
  /\ Client' = [Client EXCEPT ![n] = TRUE]
  /\ clConnected' = [clConnected EXCEPT ![n] = TRUE]
  /\ healthy' = [healthy EXCEPT ![n] = TRUE]
  /\ watchers' = [watchers EXCEPT ![n] = Min(@ + 1, MaxWatchers)]
  /\ connDialing' = [connDialing EXCEPT ![n] = @ - 1]
  /\ UNCHANGED <<connecting, nodeMutex>>
  /\ UNCHANGED <<poolVars, weight, totalUsed, failures, connQueued, retryTimers,
                 watchersLost, checksQueued, losses, callVars>>
  /\ BackgroundObs
  /\ CloseOldClient(n)
  /\ clClosed' = [clClosed EXCEPT ![n] = FALSE]
  /\ UNCHANGED <<closeVars, connLate, brokerVars, cl, URL, resVars, dials>>

\* lines 102, 115-126: client.Connect succeeded; the old client is closed,
\* the new one installed, a watcher launched
connectSucceeded(n) ==
  /\ connDialing[n] > 0
  /\ ConnectorTakesNoPoolLock
  /\ n \notin unreachable
  /\ Client' = [Client EXCEPT ![n] = TRUE]
  /\ clConnected' = [clConnected EXCEPT ![n] = TRUE]
  /\ healthy' = [healthy EXCEPT ![n] = TRUE]
  /\ watchers' = [watchers EXCEPT ![n] = Min(@ + 1, MaxWatchers)]
  /\ connDialing' = [connDialing EXCEPT ![n] = @ - 1]
  /\ connecting' = [connecting EXCEPT ![n] = FALSE]
  /\ nodeMutex' = [nodeMutex EXCEPT ![n] = FALSE]
  /\ UNCHANGED <<poolVars, weight, totalUsed, failures, connQueued, retryTimers,
                 watchersLost, checksQueued, losses, callVars>>
  /\ BackgroundObs
  /\ CloseOldClient(n)
  /\ clClosed' = [clClosed EXCEPT ![n] = FALSE]
  /\ UNCHANGED <<closeVars, connLate, brokerVars, cl, URL, resVars, dials>>

\* lines 109-111: the retry timer fires and invokes connectToNode
retryTimerFired(n) ==
  /\ retryTimers[n] > 0
  /\ connQueued[n] < MaxQueued
  /\ retryTimers' = [retryTimers EXCEPT ![n] = @ - 1]
  /\ connQueued' = [connQueued EXCEPT ![n] = @ + 1]
  /\ connLate' = [connLate EXCEPT ![n] = @ + LaunchedLate(n)]
  /\ UNCHANGED <<poolVars, nodeVars, connDialing, watchers, watchersLost,
                 checksQueued, clientVars, callVars, obsVars>>
  /\ UNCHANGED <<closeVars, brokerVars, cl, URL, resVars, handleVars>>

\* ------------------------------------------------------------ watchNodeConnection
\* lines 137-140: a tick; the client is found not connected under RLock
watchNodeConnection(n) ==
  /\ watchers[n] > 0
  /\ NodeMutexFree(n)
  /\ Client[n] /\ ~IsConnected(n)
  /\ watchers' = [watchers EXCEPT ![n] = @ - 1]
  /\ watchersLost' = [watchersLost EXCEPT ![n] = @ + 1]
  /\ UNCHANGED <<poolVars, nodeVars, connQueued, connDialing, retryTimers,
                 checksQueued, clientVars, callVars, obsVars>>
  /\ UNCHANGED <<closeVars, connLate, brokerVars, cl, URL, resVars, handleVars>>

\* lines 141-148: Lock, healthy = false, Unlock, go connectToNode, return
watchNodeMarkLost(n) ==
  /\ watchersLost[n] > 0
  /\ NodeMutexFree(n)
  /\ connQueued[n] < MaxQueued
  /\ healthy' = [healthy EXCEPT ![n] = FALSE]
  /\ watchersLost' = [watchersLost EXCEPT ![n] = @ - 1]
  /\ connQueued' = [connQueued EXCEPT ![n] = @ + 1]
  /\ connLate' = [connLate EXCEPT ![n] = @ + LaunchedLate(n)]
  /\ UNCHANGED <<poolVars, Client, weight, totalUsed, failures, connecting,
                 nodeMutex, connDialing, retryTimers, watchers, checksQueued,
                 clientVars, callVars>>
  /\ BackgroundObs
  /\ UNCHANGED <<closeVars, brokerVars, cl, URL, resVars, handleVars>>

\* lines 135-136: the watcher takes the ctx.Done case and returns
watchNodeExit(n) ==
  /\ watchers[n] > 0
  /\ ctxDone
  /\ watchers' = [watchers EXCEPT ![n] = @ - 1]
  /\ UNCHANGED <<poolVars, nodeVars, connQueued, connDialing, retryTimers,
                 watchersLost, checksQueued, clientVars, callVars, obsVars>>
  /\ UNCHANGED <<closeVars, connLate, brokerVars, cl, URL, resVars, handleVars>>

\* ------------------------------------------------------------ health prober
\* the runtime delivers a tick of p.healthTicker into its channel
healthTick ==
  /\ healthTicker = "running"
  /\ ~tickC
  /\ tickC' = TRUE
  /\ UNCHANGED <<strategy, closed, healthTicker, probers, starts, roundRobin,
                 totalRequests, totalFailures>>
  /\ UNCHANGED <<nodeVars, taskVars, clientVars, callVars, obsVars>>
  /\ UNCHANGED <<closeVars, connLate, brokerVars, cl, URL, resVars, handleVars>>

\* healthCheckWorker takes the tick; performHealthCheck spawns one
\* checkNodeHealth goroutine per node
performHealthCheck ==
  /\ probers > 0
  /\ tickC
  /\ \A n \in Nodes : checksQueued[n] < MaxChecks
  /\ tickC' = FALSE
  /\ checksQueued' = [n \in Nodes |-> checksQueued[n] + 1]
  /\ UNCHANGED <<strategy, closed, healthTicker, probers, starts, roundRobin,
                 totalRequests, totalFailures>>
  /\ UNCHANGED <<nodeVars, connQueued, connDialing, retryTimers, watchers,
                 watchersLost, clientVars, callVars, obsVars>>
  /\ UNCHANGED <<closeVars, connLate, brokerVars, cl, URL, resVars, handleVars>>

\* healthCheckWorker takes the ctx.Done case and returns
healthCheckWorkerExit ==
  /\ probers > 0
  /\ ctxDone
  /\ probers' = probers - 1
  /\ UNCHANGED <<strategy, closed, healthTicker, tickC, starts, roundRobin,
                 totalRequests, totalFailures>>
  /\ UNCHANGED <<nodeVars, taskVars, clientVars, callVars, obsVars>>
  /\ UNCHANGED <<closeVars, connLate, brokerVars, cl, URL, resVars, handleVars>>

\* variant: a node that has a client is promoted without asking IsConnected
checkNodeHealthNoConnCheck(n) ==
  /\ checksQueued[n] > 0
  /\ NodeMutexFree(n)
  /\ checksQueued' = [checksQueued EXCEPT ![n] = @ - 1]
  /\ IF ~Client[n]
     THEN /\ connQueued[n] < MaxQueued
          /\ healthy' = [healthy EXCEPT ![n] = FALSE]
          /\ connQueued' = [connQueued EXCEPT ![n] = @ + 1]
          /\ connLate' = [connLate EXCEPT ![n] = @ + LaunchedLate(n)]
     ELSE /\ healthy' = [healthy EXCEPT ![n] = TRUE]
          /\ UNCHANGED <<connQueued, connLate>>
  /\ UNCHANGED <<poolVars, Client, weight, totalUsed, failures, connecting,
                 nodeMutex, connDialing, retryTimers, watchers, watchersLost,
                 clientVars, callVars>>
  /\ BackgroundObs
  /\ UNCHANGED <<closeVars, brokerVars, cl, URL, resVars, handleVars>>

\* variant: a connected client does not bring an unhealthy node back
PromoteSkipped(n) == UNCHANGED healthy

\* lines 332-335: the client is connected, an unhealthy node becomes healthy
Promote(n) == healthy' = [healthy EXCEPT ![n] = IF ~healthy[n] THEN TRUE ELSE @]

\* variant: the prober discards a client that is not connected
KeepClientDropped(n) == Client' = [Client EXCEPT ![n] = @ /\ IsConnected(n)]

\* lines 312-331: checkNodeHealth reads node.Client and never assigns it
KeepClient(n) == UNCHANGED Client

\* lines 308-336
checkNodeHealth(n) ==
  /\ checksQueued[n] > 0
  /\ NodeMutexFree(n)
  /\ checksQueued' = [checksQueued EXCEPT ![n] = @ - 1]
  /\ IF ~Client[n] \/ ~IsConnected(n)
     THEN /\ connQueued[n] < MaxQueued
          /\ healthy' = [healthy EXCEPT ![n] = FALSE]
          /\ connQueued' = [connQueued EXCEPT ![n] = @ + 1]
          /\ connLate' = [connLate EXCEPT ![n] = @ + LaunchedLate(n)]
     ELSE /\ Promote(n)
          /\ UNCHANGED <<connQueued, connLate>>
  /\ KeepClient(n)
  /\ UNCHANGED <<poolVars, weight, totalUsed, failures, connecting,
                 nodeMutex, connDialing, retryTimers, watchers, watchersLost,
                 clientVars, callVars>>
  /\ BackgroundObs
  /\ UNCHANGED <<closeVars, brokerVars, cl, URL, resVars, handleVars>>


\* ------------------------------------------------------------ Client (client.go)
\* the broker or the network drops the connection of the client of node n:
\* connection.IsClosed() becomes true, so Client.IsConnected() is false
connectionLost(n) ==
  /\ Client[n] /\ clConnected[n]
  /\ losses < MaxLosses
  /\ losses' = losses + 1
  /\ clConnected' = [clConnected EXCEPT ![n] = FALSE]
  /\ UNCHANGED <<poolVars, nodeVars, taskVars, callVars>>
  /\ BackgroundObs
  /\ UNCHANGED <<closeVars, connLate, brokerVars, cl, URL, resVars, handleVars>>

\* values of c.connection
NilConnection == "nil"
OpenConnection == "open"
ClosedConnection == "closed"

\* the fields c.connected and c.connection of the client of node n: after
\* Client.Close they are false and nil (client.go 258-264); a connected
\* client has an open connection; after the loss of the connection the
\* connection reports closed, c.connected stays set until
\* handleDisconnection has cleared it (client.go 159-161) and reconnect then
\* sets the connection to nil (client.go 188-191)
ClientFields(n) ==
  IF clClosed[n] THEN {<<FALSE, NilConnection>>}
  ELSE IF clConnected[n] THEN {<<TRUE, OpenConnection>>}
  ELSE {<<TRUE, ClosedConnection>>, <<FALSE, ClosedConnection>>,
        <<FALSE, NilConnection>>}

\* Client.GetConnection, client.go 230-234:
\*   !c.connected || c.connection != nil || c.connection.IsClosed()
\* evaluated left to right; IsClosed on a nil connection dereferences nil
GetConnectionResult(connected, connection) ==
  IF ~connected THEN ErrNotConnected
  ELSE IF connection # NilConnection THEN ErrNotConnected
  ELSE NilDereference

\* the application calls GetConnection on the client of node n, whose
\* handle it got from GetClient
GetConnection(n) ==
  /\ Client[n]
  /\ \E f \in ClientFields(n) :
       gconn' = [connected |-> f = <<TRUE, OpenConnection>>,
                 res |-> GetConnectionResult(f[1], f[2])]
  /\ UNCHANGED <<poolVars, nodeVars, taskVars, clientVars, callVars, obsVars>>
  /\ UNCHANGED <<closeVars, connLate, brokerVars, cl, URL, startRes, swRes, handleVars>>

\* ------------------------------------------------------------ Close
\* results of Close
CloseOk == "nil"
CloseErrors == "errors during close"

\* lines 382-410: closed is set, the context cancelled, the ticker stopped;
\* node.Client is read without node.mutex and every client present is
\* closed; closing a connection may report an error
Teardown ==
  /\ closed' = TRUE
  /\ healthTicker' = IF healthTicker = "nil" THEN "nil" ELSE "stopped"
  /\ clConnected' = [n \in Nodes |-> IF Client[n] THEN FALSE ELSE clConnected[n]]
  /\ clClosed' = [n \in Nodes |-> Client[n] \/ clClosed[n]]
  /\ teardowns' = teardowns + 1
  /\ \E err \in BOOLEAN :
       /\ err => \E n \in Nodes : Client[n]
       /\ closeRes' = IF err THEN CloseErrors ELSE CloseOk

\* variant: Close does not test p.closed
AlreadyClosedIgnored == FALSE

\* the p.closed test of line 378
AlreadyClosed == closed

\* Pool.Close: takes p.mutex.Lock, so no GetClient holds the read lock
Close ==
  /\ PoolReaders = {}
  /\ closes < MaxCloses
  /\ closes' = closes + 1
  /\ IF AlreadyClosed
     THEN /\ closeRes' = CloseOk
          /\ UNCHANGED <<closed, healthTicker, clConnected, clClosed, teardowns>>
     ELSE Teardown
  /\ UNCHANGED <<strategy, tickC, probers, starts, roundRobin, totalRequests,
                 totalFailures>>
  /\ UNCHANGED <<nodeVars, taskVars, losses, callVars>>
  /\ BackgroundObs
  /\ UNCHANGED <<connLate, brokerVars, cl, URL, resVars, orphans, dials>>

\* ------------------------------------------------------------ SetNodeWeight
\* the error of SetNodeWeight
ErrNodeNotFound(url) == "node not found: " \o url

\* a URL that is not in PoolConfig.URLs
UnknownURL == "amqp://none"

\* variant: the weight is stored in every node
StoreWeightAll(n, w) == weight' = [m \in Nodes |-> w]

\* line 421: node.weight = weight
StoreWeight(n, w) == weight' = [weight EXCEPT ![n] = w]

\* Pool.SetNodeWeight: takes p.mutex.Lock, so no GetClient holds the read
\* lock; the first node whose URL matches is locked and updated
SetNodeWeight(url, w) ==
  /\ PoolReaders = {}
  /\ LET found == {n \in Nodes : URL[n] = url} IN
     IF found = {}
     THEN /\ swRes' = ErrNodeNotFound(url)
          /\ UNCHANGED weight
     ELSE LET n == CHOOSE n \in found : \A m \in found : n <= m IN
          /\ NodeMutexFree(n)
          /\ StoreWeight(n, w)
          /\ swRes' = NoError
  /\ UNCHANGED <<poolVars, Client, healthy, totalUsed, failures, connecting,
                 nodeMutex, taskVars, clientVars, callVars, obsVars, closeVars,
                 connLate, brokerVars, cl, URL, startRes, gconn, handleVars>>

\* ------------------------------------------------------------ GetClient
OthersInFlight(c) == {d \in Callers \ {c} : gcPc[d] # "idle"}

\* variant: the request is not counted
CountRequestSkipped == UNCHANGED totalRequests

\* line 157: atomic.AddInt64(&p.totalRequests, 1)
CountRequest == totalRequests' = totalRequests + 1

\* line 157: the request is counted before the lock is taken
GetClientBegin(c) ==
  /\ gcPc[c] = "idle"
  /\ totalRequests < MaxRequests
  /\ CountRequest
  /\ gcPc' = [gcPc EXCEPT ![c] = "rlock"]
  /\ gcRes' = [gcRes EXCEPT ![c] = NoResult]
  /\ gcRet' = [gcRet EXCEPT ![c] = FALSE]
  /\ gcSel' = [gcSel EXCEPT ![c] = 0]
  /\ gcSeen' = [gcSeen EXCEPT ![c] = {}]
  /\ gcAfterClose' = [gcAfterClose EXCEPT ![c] = closed]
  /\ IF strategy = RoundRobin
     THEN /\ gcStable' = [gcStable EXCEPT ![c] = TRUE]
          /\ gcSerial' = [d \in Callers |->
                            IF d = c THEN OthersInFlight(c) = {}
                            ELSE IF gcPc[d] # "idle" THEN FALSE ELSE gcSerial[d]]
     ELSE UNCHANGED <<gcStable, gcSerial>>
  /\ UNCHANGED <<strategy, closed, healthTicker, tickC, probers, starts,
                 roundRobin, totalFailures>>
  /\ UNCHANGED <<nodeVars, taskVars, clientVars, gcIdx, gcHealthy, okReturns, rrHist>>
  /\ UNCHANGED <<closeVars, connLate, brokerVars, cl, URL, resVars, handleVars>>

\* variant: GetClient does not test p.closed
PoolIsClosedIgnored == FALSE

\* the p.closed test of line 162
PoolIsClosed == closed

\* lines 159-164: RLock and the closed check
GetClientRLock(c) ==
  /\ gcPc[c] = "rlock"
  /\ IF PoolIsClosed
     THEN /\ gcPc' = [gcPc EXCEPT ![c] = "idle"]
          /\ gcRes' = [gcRes EXCEPT ![c] = ErrPoolClosed]
          /\ UNCHANGED <<gcIdx, gcHealthy>>
     ELSE /\ gcPc' = [gcPc EXCEPT ![c] = "snap"]
          /\ gcIdx' = [gcIdx EXCEPT ![c] = 1]
          /\ gcHealthy' = [gcHealthy EXCEPT ![c] = <<>>]
          /\ UNCHANGED gcRes
  /\ UNCHANGED <<poolVars, nodeVars, taskVars, clientVars, gcSel, gcRet, obsVars>>
  /\ UNCHANGED <<closeVars, connLate, brokerVars, cl, URL, resVars, handleVars>>

\* lines 276-282: one iteration of the loop of getHealthyNodes
getHealthyNodes(c) ==
  /\ gcPc[c] \in {"snap", "snapRR"}
  /\ LET n == gcIdx[c] IN
     /\ NodeMutexFree(n)
     /\ gcHealthy' = [gcHealthy EXCEPT ![c] = IF IsHealthyNode(n) THEN Append(@, n) ELSE @]
     /\ gcSeen' = [gcSeen EXCEPT ![c] =
                     IF healthy[n] /\ Client[n] /\ clConnected[n] THEN @ \cup {n} ELSE @]
     /\ IF n = NodeCount
        THEN /\ gcPc' = [gcPc EXCEPT ![c] = IF @ = "snap" THEN "select" ELSE "selectRR"]
             /\ gcIdx' = [gcIdx EXCEPT ![c] = 0]
        ELSE /\ gcIdx' = [gcIdx EXCEPT ![c] = n + 1]
             /\ UNCHANGED gcPc
  /\ UNCHANGED <<poolVars, nodeVars, taskVars, clientVars, gcSel, gcRes, gcRet,
                 gcAfterClose, gcStable, gcSerial, okReturns, rrHist>>
  /\ UNCHANGED <<closeVars, connLate, brokerVars, cl, URL, resVars, handleVars>>

\* variant: the counter is not used, the first healthy node is returned
RoundRobinIndexFirst(rr, len) == 0

\* index chosen by getClientRoundRobin for counter value rr (after the increment)
RoundRobinIndex(rr, len) == rr % len

\* variant: a later node with an equal totalUsed replaces the selection
RECURSIVE LeastUsedScanLast(_, _, _, _)
LeastUsedScanLast(hs, i, best, minUsed) ==
  IF i > Len(hs) THEN best
  ELSE IF best = 0 \/ totalUsed[hs[i]] <= minUsed
       THEN LeastUsedScanLast(hs, i + 1, hs[i], totalUsed[hs[i]])
       ELSE LeastUsedScanLast(hs, i + 1, best, minUsed)

\* getClientLeastUsed: scan keeping the first strictly smaller totalUsed
RECURSIVE LeastUsedScan(_, _, _, _)
LeastUsedScan(hs, i, best, minUsed) ==
  IF i > Len(hs) THEN best
  ELSE IF best = 0 \/ totalUsed[hs[i]] < minUsed
       THEN LeastUsedScan(hs, i + 1, hs[i], totalUsed[hs[i]])
       ELSE LeastUsedScan(hs, i + 1, best, minUsed)

RECURSIVE SumWeight(_, _)
SumWeight(hs, k) == IF k = 0 THEN 0 ELSE SumWeight(hs, k - 1) + weight[hs[k]]

\* variant: the running sum only has to reach the draw
WeightedPickInclusive(hs, r) ==
  LET hit == {i \in 1..Len(hs) : r <= SumWeight(hs, i)}
  IN IF hit = {} THEN hs[1]
     ELSE hs[CHOOSE i \in hit : \A j \in hit : i <= j]

\* getClientWeightedRoundRobin lines 260-270: node returned for draw r
WeightedPick(hs, r) ==
  LET hit == {i \in 1..Len(hs) : r < SumWeight(hs, i)}
  IN IF hit = {} THEN hs[1]
     ELSE hs[CHOOSE i \in hit : \A j \in hit : i <= j]

\* lines 169-185: the selector ran on the snapshot and returned node sel
Selected(c, sel) ==
  /\ gcSel' = [gcSel EXCEPT ![c] = sel]
  /\ gcPc' = [gcPc EXCEPT ![c] = "update"]
  /\ UNCHANGED <<gcRes, totalFailures>>

\* variant: the error is returned without counting the failure
SelectFailedUncounted(c) ==
  /\ UNCHANGED totalFailures
  /\ gcRes' = [gcRes EXCEPT ![c] = ErrNoHealthyNodes]
  /\ gcPc' = [gcPc EXCEPT ![c] = "idle"]
  /\ UNCHANGED <<roundRobin, gcSel, gcIdx>>

\* the selector found no healthy node (lines 200-202, 211-213, 222-224,
\* 243-245); GetClient counts the failure and returns the error (182-185)
SelectFailed(c) ==
  /\ totalFailures' = totalFailures + 1
  /\ gcRes' = [gcRes EXCEPT ![c] = ErrNoHealthyNodes]
  /\ gcPc' = [gcPc EXCEPT ![c] = "idle"]
  /\ UNCHANGED <<roundRobin, gcSel, gcIdx>>

\* line 259: rand.Intn(totalWeight) panics on a negative total; the
\* deferred RUnlock of line 160 runs while the goroutine unwinds
SelectPanicked(c) ==
  /\ gcRes' = [gcRes EXCEPT ![c] = IntnPanic]
  /\ gcPc' = [gcPc EXCEPT ![c] = "idle"]
  /\ UNCHANGED <<roundRobin, gcSel, gcIdx, totalFailures>>

GetClientSelect(c) ==
  /\ gcPc[c] \in {"select", "selectRR"}
  /\ LET hs == gcHealthy[c]
         st == IF gcPc[c] = "selectRR" THEN RoundRobin ELSE strategy
     IN IF Len(hs) = 0
        THEN SelectFailed(c)
        ELSE CASE st = RoundRobin ->
                    /\ roundRobin' = roundRobin + 1
                    /\ Selected(c, hs[RoundRobinIndex(roundRobin + 1, Len(hs)) + 1])
                    /\ UNCHANGED gcIdx
               [] st = Random ->
                    /\ \E i \in 1..Len(hs) : Selected(c, hs[i])
                    /\ UNCHANGED <<roundRobin, gcIdx>>
               [] st = LeastUsed ->
                    /\ Selected(c, LeastUsedScan(hs, 1, 0, 0))
                    /\ UNCHANGED <<roundRobin, gcIdx>>
               [] st = WeightedRoundRobin ->
                    IF SumWeight(hs, Len(hs)) = 0
                    THEN /\ gcPc' = [gcPc EXCEPT ![c] = "snapRR"]
                         /\ gcIdx' = [gcIdx EXCEPT ![c] = 1]
                         /\ UNCHANGED <<roundRobin, gcSel, gcRes, totalFailures>>
                    ELSE IF SumWeight(hs, Len(hs)) < 0
                    THEN SelectPanicked(c)
                    ELSE /\ \E r \in 0..(SumWeight(hs, Len(hs)) - 1) :
                              Selected(c, WeightedPick(hs, r))
                         /\ UNCHANGED <<roundRobin, gcIdx>>
  /\ gcHealthy' = [gcHealthy EXCEPT ![c] = <<>>]
  /\ gcSeen' = [gcSeen EXCEPT ![c] = IF gcPc'[c] = "update" THEN @ ELSE {}]
  /\ UNCHANGED <<strategy, closed, healthTicker, tickC, probers, starts, totalRequests>>
  /\ UNCHANGED <<nodeVars, taskVars, clientVars, gcRet, gcAfterClose, gcStable,
                 gcSerial, okReturns, rrHist>>
  /\ UNCHANGED <<closeVars, connLate, brokerVars, cl, URL, resVars, handleVars>>

\* the last NodeCount entries of a history
LastEntries(h) == IF Len(h) > NodeCount THEN SubSeq(h, Len(h) - NodeCount + 1, Len(h)) ELSE h

\* variant: the usage counter of the selected node is not incremented
CountUseSkipped(n) == UNCHANGED totalUsed

\* line 189: atomic.AddInt64(&selectedNode.totalUsed, 1)
CountUse(n) == totalUsed' = [totalUsed EXCEPT ![n] = @ + 1]

\* lines 187-195: usage statistics, the handle is read and returned
GetClientUpdate(c) ==
  /\ gcPc[c] = "update"
  /\ LET n == gcSel[c] IN
     /\ NodeMutexFree(n)
     /\ CountUse(n)
     /\ gcRet' = [gcRet EXCEPT ![c] = Client[n]]
     /\ gcRes' = [gcRes EXCEPT ![c] = Ok]
     /\ gcPc' = [gcPc EXCEPT ![c] = "idle"]
     /\ okReturns' = okReturns + 1
     /\ gcSel' = [gcSel EXCEPT ![c] = 0]
     /\ gcSeen' = [gcSeen EXCEPT ![c] = {}]
     /\ rrHist' = IF strategy # RoundRobin THEN rrHist
                  ELSE IF gcStable[c] THEN LastEntries(Append(rrHist, <<n, gcSerial[c]>>))
                  ELSE <<>>
  /\ UNCHANGED <<poolVars, Client, healthy, weight, failures, connecting, nodeMutex,
                 taskVars, clientVars, gcIdx, gcHealthy,
                 gcAfterClose, gcStable, gcSerial>>
  /\ UNCHANGED <<closeVars, connLate, brokerVars, cl, URL, resVars, handleVars>>

\* ------------------------------------------------------------ specifications
\* the supervision tasks of the pool and its environment
NextPool ==
  \/ StartOpen
  \/ Close
  \/ \E n \in Nodes : connectToNode(n)
  \/ \E n \in Nodes : connectFailed(n)
  \/ \E n \in Nodes : connectSucceeded(n)
  \/ \E n \in Nodes : retryTimerFired(n)
  \/ \E n \in Nodes : watchNodeConnection(n)
  \/ \E n \in Nodes : watchNodeMarkLost(n)
  \/ \E n \in Nodes : watchNodeExit(n)
  \/ healthTick
  \/ performHealthCheck
  \/ healthCheckWorkerExit
  \/ \E n \in Nodes : checkNodeHealth(n)
  \/ \E n \in Nodes : connectionLost(n)

\* GetClient calls against a pool whose brokers accept connections, in the
\* time before the first tick of the watchers (10 s) and of the prober
\* (HealthCheckInterval): connections are made and lost, nothing is repaired
NextCalls ==
  \/ StartOpen
  \/ \E n \in Nodes : connectToNode(n)
  \/ \E n \in Nodes : connectSucceeded(n)
  \/ \E n \in Nodes : connectionLost(n)
  \/ \E c \in Callers : GetClientBegin(c)
  \/ \E c \in Callers : GetClientRLock(c)
  \/ \E c \in Callers : getHealthyNodes(c)
  \/ \E c \in Callers : GetClientSelect(c)
  \/ \E c \in Callers : GetClientUpdate(c)

\* the life of a pool as its application sees it: Start, GetClient calls and
\* Close, while connect attempts fail or succeed and connections are lost
NextUse ==
  \/ NextCalls
  \/ Close
  \/ \E n \in Nodes : connectFailed(n)
  \/ \E n \in Nodes : retryTimerFired(n)

\* the supervision tasks of a pool that is not closed
NextLive ==
  \/ Start
  \/ \E n \in Nodes : connectToNode(n)
  \/ \E n \in Nodes : connectFailed(n)
  \/ \E n \in Nodes : connectSucceeded(n)
  \/ \E n \in Nodes : retryTimerFired(n)
  \/ \E n \in Nodes : watchNodeConnection(n)
  \/ \E n \in Nodes : watchNodeMarkLost(n)
  \/ healthTick
  \/ performHealthCheck
  \/ \E n \in Nodes : checkNodeHealth(n)
  \/ \E n \in Nodes : connectionLost(n)

\* the supervision tasks that run when no connect attempt ever succeeds
NextDown ==
  \/ Start
  \/ Close
  \/ \E n \in Nodes : connectToNode(n)
  \/ \E n \in Nodes : connectFailed(n)
  \/ \E n \in Nodes : retryTimerFired(n)
  \/ healthTick
  \/ performHealthCheck
  \/ healthCheckWorkerExit
  \/ \E n \in Nodes : checkNodeHealth(n)

\* GetClient called from one goroutine
GetClientSerial ==
  \/ GetClientBegin(SerialCaller)
  \/ GetClientRLock(SerialCaller)
  \/ getHealthyNodes(SerialCaller)
  \/ GetClientSelect(SerialCaller)
  \/ GetClientUpdate(SerialCaller)

\* an application that calls GetClient from one goroutine while connections
\* are made and lost
NextSerial ==
  \/ Start
  \/ \E n \in Nodes : connectToNode(n)
  \/ \E n \in Nodes : connectSucceeded(n)
  \/ \E n \in Nodes : connectionLost(n)
  \/ GetClientSerial
  \/ \E n \in Nodes : GetConnection(n)

\* an application that sets weights and calls GetClient from one goroutine
NextWeighted ==
  \/ Start
  \/ \E n \in Nodes : connectToNode(n)
  \/ \E n \in Nodes : connectSucceeded(n)
  \/ \E n \in Nodes, w \in WeightValues : SetNodeWeight(URL[n], w)
  \/ GetClientSerial

\* ------------------------------------------------------------ Client reconnection
\* connectToURL lines 110-122 after a successful dial: connection, channel
\* and connected are stored, reconnectAttempts is reset, setupErrorHandlers
\* installs fresh NotifyClose channels and a new reconnectWorker is started
connectToURLSucceeded(c) ==
  [c EXCEPT !.connection = OpenConnection, !.connected = TRUE,
            !.reconnectAttempts = 0, !.connectionErrors = 0,
            !.channelErrors = 0, !.workers = @ + 1, !.tries = 0]

\* lines 60-83: the application calls Connect on a client that has no
\* worker yet; a connected client returns nil at once, a failed dial leaves
\* the client as it was
Connect ==
  /\ cl.workers = 0 /\ ~cl.cancelled
  /\ ~cl.connected
  /\ \E dialed \in BOOLEAN :
       cl' = IF dialed THEN connectToURLSucceeded(cl) ELSE cl
  /\ UNCHANGED poolSide

\* kinds of failure: the connection drops (its NotifyClose channel and that
\* of its channel both receive the error) or only the channel is closed by
\* the broker
DropKinds == {"connection", "channel"}

\* the broker or the network ends the connection or the channel
connectionDropped(kind) ==
  /\ cl.connection = OpenConnection
  /\ cl.drops < MaxDrops
  /\ cl' = [cl EXCEPT !.drops = @ + 1,
                      !.connection = IF kind = "connection" THEN ClosedConnection ELSE @,
                      !.connectionErrors = IF kind = "connection" THEN 1 ELSE @,
                      !.channelErrors = 1]
  /\ UNCHANGED poolSide

\* handleDisconnection lines 157-167
handleDisconnection(c) == [c EXCEPT !.connected = FALSE, !.reconnects = @ + 1]

\* reconnectWorker lines 142-146: a worker receives the connection error.
\* select chooses among the ready cases, so the case can be taken although
\* ctx.Done is readable too
reconnectWorkerConnectionError ==
  /\ cl.workers > 0
  /\ cl.connectionErrors > 0
  /\ cl' = handleDisconnection([cl EXCEPT !.connectionErrors = 0])
  /\ UNCHANGED poolSide

\* reconnectWorker lines 147-151: a worker receives the channel error
reconnectWorkerChannelError ==
  /\ cl.workers > 0
  /\ cl.channelErrors > 0
  /\ cl' = handleDisconnection([cl EXCEPT !.channelErrors = 0])
  /\ UNCHANGED poolSide

\* reconnectWorker lines 140-141: a worker takes the ctx.Done case
reconnectWorkerExit ==
  /\ cl.workers > 0
  /\ cl.cancelled
  /\ cl' = [cl EXCEPT !.workers = @ - 1]
  /\ UNCHANGED poolSide

\* lines 178-183: the attempt just counted is beyond MaxReconnectAttempt
AttemptsExhausted(a) == a > MaxReconnectAttempt

\* reconnect lines 169-196, the critical section: nothing to do for a
\* connected client; otherwise the attempt is counted and, unless the
\* attempts are exhausted, the old connection and channel are closed and
\* cleared.  The context is not consulted
reconnect ==
  /\ cl.reconnects > 0
  /\ cl' = IF cl.connected
           THEN [cl EXCEPT !.reconnects = @ - 1]
           ELSE IF AttemptsExhausted(cl.reconnectAttempts + 1)
           THEN [cl EXCEPT !.reconnects = @ - 1, !.reconnectAttempts = @ + 1]
           ELSE [cl EXCEPT !.reconnects = @ - 1, !.reconnectAttempts = @ + 1,
                           !.connection = NilConnection, !.dialing = @ + 1]
  /\ UNCHANGED poolSide

\* reconnect lines 198-203: c.Connect(c.ctx), which does not read its
\* context: nil at once for a client that is connected by now, else a
\* dial; after a failed dial time.AfterFunc arms the next reconnect
reconnectConnect ==
  /\ cl.dialing > 0
  /\ \E dialed \in BOOLEAN :
       cl' = IF cl.connected
             THEN [cl EXCEPT !.dialing = @ - 1]
             ELSE IF dialed
             THEN connectToURLSucceeded([cl EXCEPT !.dialing = @ - 1])
             ELSE [cl EXCEPT !.dialing = @ - 1, !.tries = @ + 1,
                             !.timers = @ + 1]
  /\ UNCHANGED poolSide

\* the AfterFunc timer of line 202 fires and calls c.reconnect in its own
\* goroutine
reconnectTimerFired ==
  /\ cl.timers > 0
  /\ cl' = [cl EXCEPT !.timers = @ - 1, !.reconnects = @ + 1]
  /\ UNCHANGED poolSide

\* Client.Close lines 238-271: cancels the context, stops reconnectTicker
\* (which is never set), closes and clears channel and connection, clears
\* connected
ClientCloseFields(c) ==
  [c EXCEPT !.cancelled = TRUE, !.connection = NilConnection,
            !.connected = FALSE, !.closed = TRUE]

ClientClose ==
  /\ ~cl.closed
  /\ cl' = ClientCloseFields(cl)
  /\ UNCHANGED poolSide

\* one single-connection client: it is connected, loses its connection,
\* reconnects and is closed
NextClient ==
  \/ Connect
  \/ \E kind \in DropKinds : connectionDropped(kind)
  \/ reconnectWorkerConnectionError
  \/ reconnectWorkerChannelError
  \/ reconnectWorkerExit
  \/ reconnect
  \/ reconnectConnect
  \/ reconnectTimerFired
  \/ ClientClose

\* an application that calls Start more than once on its pool
NextRestart ==
  \/ StartAgain
  \/ Close
  \/ \E n \in Nodes : connectToNode(n)
  \/ \E n \in Nodes : connectSucceeded(n)
  \/ \E n \in Nodes : connectionLost(n)
  \/ healthTick
  \/ performHealthCheck
  \/ healthCheckWorkerExit
  \/ \E n \in Nodes : checkNodeHealth(n)

\* weights of either sign are set while connections are made and lost and
\* GetClient is called from one goroutine
NextSigned ==
  \/ Start
  \/ \E n \in Nodes : connectToNode(n)
  \/ \E n \in Nodes : connectSucceeded(n)
  \/ \E n \in Nodes : connectionLost(n)
  \/ \E n \in Nodes, w \in SignedWeights : SetNodeWeight(URL[n], w)
  \/ GetClientSerial

\* URLs and weights an operator gives to SetNodeWeight to switch nodes off
\* and on
AdminURLs == {URL[n] : n \in Nodes} \cup {UnknownURL}
AdminWeights == {0, 1}

\* an operator switches nodes off and on while GetClient is called from one
\* goroutine
NextAdmin ==
  \/ Start
  \/ \E n \in Nodes : connectToNode(n)
  \/ \E n \in Nodes : connectSucceeded(n)
  \/ \E url \in AdminURLs, w \in AdminWeights : SetNodeWeight(url, w)
  \/ GetClientSerial

\* a pool from its construction on: the application calls SetNodeWeight,
\* GetClient and Start in any order while connect attempts fail or succeed
\* and the prober runs
NextFresh ==
  \/ Start
  \/ \E n \in Nodes : connectToNode(n)
  \/ \E n \in Nodes : connectFailed(n)
  \/ \E n \in Nodes : connectSucceeded(n)
  \/ \E n \in Nodes : retryTimerFired(n)
  \/ healthTick
  \/ performHealthCheck
  \/ \E n \in Nodes : checkNodeHealth(n)
  \/ \E n \in Nodes, w \in AdminWeights : SetNodeWeight(URL[n], w)
  \/ GetClientSerial

Next ==
  \/ NextPool \/ NextCalls \/ NextUse \/ NextLive \/ NextDown \/ NextSerial
  \/ NextWeighted \/ NextAdmin \/ NextFresh \/ NextSigned \/ NextRestart \/ NextClient

\* the whole system
Spec == Init /\ [][Next]_vars

\* two nodes, application goroutines calling GetClient
SpecCalls == Init /\ [][NextCalls]_vars

\* two nodes under LeastUsed, GetClient is called serially
SpecLeastUsed == InitLeastUsed /\ [][NextSerial]_vars

\* two nodes under WeightedRoundRobin, weights are set, GetClient is called
\* serially
SpecWeighted == InitWeighted /\ [][NextWeighted]_vars

\* two nodes, any strategy, nodes are switched off and on by weight,
\* GetClient is called serially
SpecAdmin == Init /\ [][NextAdmin]_vars

\* one single-connection client on its own
SpecClient == InitOne /\ [][NextClient]_vars

\* one node, Start is called more than once
SpecRestart == InitOne /\ [][NextRestart]_vars

\* two nodes under WeightedRoundRobin with weights of either sign
SpecSigned == InitWeighted /\ [][NextSigned]_vars

\* one node under Random, every API call may come before Start
SpecFresh == InitFresh /\ [][NextFresh]_vars

\* one node, any strategy, the application starts, uses and closes the pool
SpecUse == InitUse /\ [][NextUse]_vars

\* supervision only.  The goroutines that supervise a node take node.mutex
\* and never p.mutex, and share no field with those of another node, so
\* they are checked on a pool of one node
SpecPool == InitOne /\ [][NextPool]_vars

\* every runnable goroutine is scheduled, every armed timer and ticker
\* fires, and client.Connect returns; Start, Close and the loss of a
\* connection are up to the application and the network
Fairness(ns) ==
  /\ \A n \in ns : WF_vars(connectToNode(n))
  /\ \A n \in ns : WF_vars(connectFailed(n) \/ connectSucceeded(n))
  /\ \A n \in ns : WF_vars(retryTimerFired(n))
  /\ \A n \in ns : WF_vars(watchNodeConnection(n))
  /\ \A n \in ns : WF_vars(watchNodeMarkLost(n))
  /\ \A n \in ns : WF_vars(checkNodeHealth(n))
  /\ WF_vars(healthTick)
  /\ WF_vars(performHealthCheck)

\* node indices of the one-node pool
LiveNodes == 1..Len(OneURL)

\* supervision of a pool that is never closed, fair scheduling
SpecLive == InitOne /\ [][NextLive]_vars /\ Fairness(LiveNodes)

\* a goroutine whose select finds p.ctx.Done() readable takes that case
FairnessExit(ns) ==
  /\ WF_vars(healthCheckWorkerExit)
  /\ \A n \in ns : WF_vars(watchNodeExit(n))

\* supervision of a node whose broker stays unreachable, fair scheduling
SpecDown == InitDown /\ [][NextDown]_vars /\ Fairness(LiveNodes) /\ FairnessExit(LiveNodes)

\* ------------------------------------------------------------ properties

\* C1: a GetClient call invoked after Close has returned never gets past
\* the closed check: it returns the pool-closed error and no client handle.
NoClientAfterClose ==
  \A c \in Callers :
    gcAfterClose[c] =>
      /\ gcPc[c] \in {"rlock", "idle"}
      /\ ~gcRet[c]
      /\ gcPc[c] = "idle" => gcRes[c] = ErrPoolClosed

RejectedAfterClose ==
  \E c \in Callers, n \in Nodes :
    gcAfterClose[c] /\ gcPc[c] = "idle" /\ gcRes[c] = ErrPoolClosed /\ healthy[n]

\* C2 (as claimed): once the pool is closed no connect attempt starts, no
\* client is installed, no retry timer is armed and no prober check runs.
NoBackgroundWorkAfterClose ==
  [][closed =>
       \A n \in Nodes :
         /\ connDialing'[n] <= connDialing[n]
         /\ ~(connDialing'[n] < connDialing[n] /\ Client'[n] /\ clConnected'[n])
         /\ retryTimers'[n] <= retryTimers[n]
         /\ checksQueued'[n] >= checksQueued[n]]_vars

\* C3: the node a successful GetClient selects is one that satisfied
\* healthy /\ client present /\ client connected when the call scanned it,
\* and the handle returned is not nil.
SelectedFromHealthySnapshot ==
  \A c \in Callers :
    /\ gcPc[c] = "update" => gcSel[c] \in gcSeen[c]
    /\ gcRes[c] = Ok => gcRet[c]

StaleNodeSkipped ==
  \E c \in Callers, n \in Nodes :
    /\ gcPc[c] = "update"
    /\ n \notin gcSeen[c]
    /\ healthy[n] /\ Client[n] /\ ~clConnected[n]

\* C4 (as claimed): with no GetClient call in flight, totalRequests is the
\* number of calls that returned a client plus totalFailures.
RequestsAccounted ==
  (\A c \in Callers : gcPc[c] = "idle") =>
     totalRequests = okReturns + totalFailures

\* C5 (as claimed): no GetClient call is ever waiting for a node mutex that a
\* connectToNode run holds across its client.Connect call.
GetClientNeverWaitsForConnect ==
  \A c \in Callers :
    /\ gcPc[c] \in {"snap", "snapRR"} => ~nodeMutex[gcIdx[c]]
    /\ gcPc[c] = "update" => ~nodeMutex[gcSel[c]]

\* C6: windows of round-robin returns over a stable healthy set
HistDistinct(h) == \A i, j \in 1..Len(h) : i < j => h[i][1] # h[j][1]
HistSerial(h) == \A i \in 1..Len(h) : h[i][2]
HistWindow(h, k) == SubSeq(h, Len(h) - k + 1, Len(h))

\* C6 (as claimed): among any N consecutive successful returns over N nodes
\* that stay healthy, every node is returned exactly once.
RoundRobinWindowFair ==
  LET k == Cardinality(HealthySet)
  IN (k >= 1 /\ Len(rrHist) >= k) => HistDistinct(HistWindow(rrHist, k))

\* C6 (amended): the same, for consecutive returns of calls that did not
\* overlap any other GetClient call.
RoundRobinSerialFair ==
  LET k == Cardinality(HealthySet)
  IN (k >= 1 /\ Len(rrHist) >= k /\ HistSerial(HistWindow(rrHist, k)))
       => HistDistinct(HistWindow(rrHist, k))

RoundRobinSerialWindow ==
  /\ Cardinality(HealthySet) = 2
  /\ Len(rrHist) = 2
  /\ HistSerial(rrHist)

\* C7 (as claimed): in a running pool a node marked healthy has a client
\* that is connected.
HealthyImpliesConnected ==
  ~closed => \A n \in Nodes : healthy[n] => (Client[n] /\ clConnected[n])

\* C7 (amended): a node marked healthy has a client, and every step that
\* turns healthy from false to true leaves that client connected.
HealthySetOnlyWhenConnected ==
  [][\A n \in Nodes :
       /\ healthy'[n] => Client'[n]
       /\ (~healthy[n] /\ healthy'[n]) => clConnected'[n]]_vars

HealthyAfterLoss ==
  \E n \in Nodes : healthy[n] /\ Client[n] /\ clConnected[n] /\ losses > 0 /\ ~closed

StaleHealthyDetected ==
  \A n \in LiveNodes :
    (healthy[n] /\ Client[n] /\ ~clConnected[n] /\ ~closed)
      ~> (~healthy[n] \/ clConnected[n] \/ closed)

LossDetected ==
  \E n \in Nodes : losses > 0 /\ Client[n] /\ ~clConnected[n] /\ ~healthy[n] /\ ~closed

\* C10: at most one connectToNode run per node is inside client.Connect.
AtMostOneConnectAttempt ==
  \A n \in Nodes : connDialing[n] <= 1

ConnectorWaitsBehindAttempt ==
  \E n \in Nodes : connDialing[n] = 1 /\ connQueued[n] >= 1

\* C11 (as claimed): a connectToNode invocation launched while a run for the
\* same node was in flight performs no connect attempt when it gets the node
\* mutex.
LateConnectorIsNoOp ==
  [][\A n \in Nodes :
       connLate'[n] < connLate[n] => connDialing'[n] = connDialing[n]]_vars

\* C12: over any number of Close calls the teardown is executed exactly
\* once, by the first call; a Close call on a closed pool returns nil and
\* changes nothing.
CloseIdempotent ==
  /\ [](teardowns = IF closed THEN 1 ELSE 0)
  /\ [][(closed /\ closes' # closes) =>
          /\ closeRes' = CloseOk
          /\ UNCHANGED <<poolVars, nodeVars, taskVars, clientVars, callVars,
                         obsVars, teardowns, connLate, brokerVars, cl, URL, resVars, handleVars>>]_vars

ClosedTwice ==
  /\ closes >= 2
  /\ teardowns = 1
  /\ \E n \in Nodes : Client[n]

\* no prober, no watcher, no connectToNode invocation or run and no retry
\* timer is left
NoBackgroundTask ==
  /\ probers = 0
  /\ \A n \in LiveNodes :
       /\ connQueued[n] = 0 /\ connDialing[n] = 0 /\ retryTimers[n] = 0
       /\ watchers[n] = 0 /\ watchersLost[n] = 0 /\ checksQueued[n] = 0

\* C13 (as claimed): after Close on a started pool eventually no background
\* task remains, even when the broker of a node stays unreachable.
ShutdownTerminates ==
  (closed /\ starts > 0) ~> NoBackgroundTask

\* C14 (as claimed): once Close has returned no node holds a connected
\* client.
NoConnectionSurvivesClose ==
  closed => \A n \in Nodes : ~(Client[n] /\ clConnected[n])

\* C15 (as claimed): when Close returns, no connectToNode run is inside
\* client.Connect.
CloseWaitsForConnectors ==
  [][(~closed /\ closed') => \A n \in Nodes : connDialing'[n] = 0]_vars

\* C16: a GetClient call on an open pool that found no node satisfying the
\* healthy predicate returns the no-healthy-nodes error and no handle, adds
\* exactly one to totalFailures and leaves every node's totalUsed, healthy
\* flag and client and the round-robin counter unchanged.
NoHealthyNodesFails ==
  [][\A c \in Callers :
       (gcPc[c] \in {"select", "selectRR"} /\ gcPc'[c] # gcPc[c] /\ gcSeen[c] = {}) =>
          /\ gcPc'[c] = "idle"
          /\ gcRes'[c] = ErrNoHealthyNodes
          /\ ~gcRet'[c]
          /\ totalFailures' = totalFailures + 1
          /\ UNCHANGED <<totalUsed, healthy, Client, roundRobin>>]_vars

FailedWithNoHealthyNodes ==
  \E c \in Callers, n \in Nodes :
    /\ gcPc[c] = "idle" /\ gcRes[c] = ErrNoHealthyNodes
    /\ totalFailures >= 1
    /\ healthy[n] /\ Client[n] /\ ~clConnected[n]

\* C17: a successful GetClient adds one to the totalUsed of the node whose
\* client it returns and to no other; with no call in flight the sum of the
\* per-node totalUsed is the number of successful returns.
UsageCounted ==
  /\ []((\A c \in Callers : gcPc[c] = "idle") =>
          SumTo(totalUsed, NodeCount) = okReturns)
  /\ [][\A c \in Callers :
          (gcPc[c] = "update" /\ gcPc'[c] = "idle") =>
             /\ gcRes'[c] = Ok
             /\ gcRet'[c] = Client[gcSel[c]]
             /\ totalUsed' = [totalUsed EXCEPT ![gcSel[c]] = @ + 1]]_vars

BothNodesUsed ==
  /\ \A c \in Callers : gcPc[c] = "idle"
  /\ \A n \in Nodes : totalUsed[n] >= 1
  /\ NodeCount = 2
  /\ okReturns = MaxRequests

\* C18: totalRequests is never below totalFailures, and totalRequests,
\* totalFailures and every node's totalUsed and failures never decrease.
CountersMonotone ==
  /\ [](totalRequests >= totalFailures)
  /\ [][/\ totalRequests' >= totalRequests
        /\ totalFailures' >= totalFailures
        /\ \A n \in Nodes : totalUsed'[n] >= totalUsed[n]
        /\ \A n \in Nodes : failures'[n] >= failures[n]]_vars

AllCountersMoved ==
  /\ totalFailures >= 1
  /\ totalRequests > totalFailures
  /\ \E n \in Nodes : totalUsed[n] >= 1 /\ failures[n] >= 1

\* the draws in [0, totalWeight) for which the i-th node of hs is returned
DrawsFor(hs, i) ==
  {r \in 0..(SumWeight(hs, Len(hs)) - 1) : WeightedPick(hs, r) = hs[i]}

\* C19: under WeightedRoundRobin, when every node of the healthy snapshot
\* has a positive weight, exactly weight[i] of the totalWeight draw values
\* select node i.
WeightRespected ==
  \A c \in Callers :
    LET hs == gcHealthy[c] IN
      (/\ strategy = WeightedRoundRobin
       /\ gcPc[c] = "select"
       /\ \A i \in 1..Len(hs) : weight[hs[i]] > 0)
      => \A i \in 1..Len(hs) : Cardinality(DrawsFor(hs, i)) = weight[hs[i]]

UnequalWeightsDrawn ==
  \E c \in Callers :
    /\ strategy = WeightedRoundRobin
    /\ gcPc[c] = "select"
    /\ Len(gcHealthy[c]) = 2
    /\ weight[gcHealthy[c][1]] = MaxWeight
    /\ weight[gcHealthy[c][2]] = 1

\* the node of S with the smallest totalUsed, the lowest index among equals
LeastIn(S) ==
  CHOOSE n \in S :
    \A m \in S : totalUsed[n] < totalUsed[m] \/ (totalUsed[n] = totalUsed[m] /\ n <= m)

\* the totalUsed of the nodes of S differ by at most one
Balanced(S) == \A n, m \in S : totalUsed[n] - totalUsed[m] <= 1

\* C20: under LeastUsed the node selected is the healthy node with the
\* smallest totalUsed, the lowest index among equals; a serial call over an
\* unchanged healthy set whose counts differ by at most one leaves them
\* differing by at most one.
LeastUsedSelected ==
  [][\A c \in Callers :
       /\ (strategy = LeastUsed /\ gcPc[c] = "select" /\ gcPc'[c] = "update")
            => gcSel'[c] = LeastIn(gcSeen[c])
       /\ (/\ strategy = LeastUsed /\ gcPc[c] = "update" /\ gcPc'[c] = "idle"
           /\ gcSeen[c] = HealthySet /\ Balanced(HealthySet))
            => Balanced(HealthySet)']_vars

TieGoesToFirst ==
  \E c \in Callers :
    /\ strategy = LeastUsed
    /\ gcPc[c] = "update"
    /\ gcSeen[c] = Nodes
    /\ gcSel[c] = 1
    /\ \A n \in Nodes : totalUsed[n] = 1


\* C21: under WeightedRoundRobin a node of weight zero is never selected
\* from a healthy set that holds a node of positive weight (the healthy set
\* is the one the selection is made from).
ZeroWeightNeverSelected ==
  \A c \in Callers :
    (/\ strategy = WeightedRoundRobin
     /\ gcPc[c] = "update"
     /\ \E n \in gcSeen[c] : weight[n] > 0)
    => weight[gcSel[c]] # 0


\* C22: a SetNodeWeight call whose URL is that of a node stores the weight
\* in that node, returns nil and changes nothing else; a call whose URL is
\* that of no node returns the node-not-found error and changes nothing.
SetNodeWeightFrame ==
  [][\A url \in AdminURLs, w \in AdminWeights :
       SetNodeWeight(url, w) =>
         /\ UNCHANGED <<poolVars, Client, healthy, totalUsed, failures, connecting,
                        nodeMutex, taskVars, clientVars, callVars, obsVars,
                        closeVars, connLate, brokerVars, cl, URL, startRes, gconn,
                        handleVars>>
         /\ IF \E n \in Nodes : URL[n] = url
            THEN /\ swRes' = NoError
                 /\ \A n \in Nodes :
                      weight'[n] = IF URL[n] = url THEN w ELSE weight[n]
            ELSE /\ swRes' = ErrNodeNotFound(url)
                 /\ weight' = weight]_vars

\* C22 witness: node 1 was switched off, node 2 kept its weight, both are
\* healthy, and the last call named an unknown URL
WeightSetThenUnknownURL ==
  /\ swRes = ErrNodeNotFound(UnknownURL)
  /\ weight[1] = 0
  /\ weight[2] = 1
  /\ \A n \in Nodes : healthy[n]


\* C24: a Start call on a closed pool returns the pool-closed error and
\* changes nothing else: no connectToNode invocation, no ticker, no
\* healthCheckWorker is launched.
StartOnClosedPoolRejected ==
  [][(closed /\ Start) =>
       /\ startRes' = ErrPoolClosed
       /\ UNCHANGED <<poolVars, nodeVars, taskVars, clientVars, callVars, obsVars,
                      closeVars, connLate, brokerVars, cl, URL, swRes, gconn,
                      handleVars>>]_vars

\* C24 witness: a pool closed before it was started has rejected a Start
\* call and runs nothing
StartRejected ==
  /\ closed
  /\ startRes = ErrPoolClosed
  /\ starts = 0
  /\ probers = 0
  /\ \A n \in Nodes : connQueued[n] = 0 /\ connDialing[n] = 0


\* C23: until a Start call has returned nil the pool runs nothing: no
\* ticker, no healthCheckWorker, no connectToNode invocation or attempt, no
\* retry timer, watcher or health check; every node is unhealthy, has no
\* client and no failure, and has weight 1 unless SetNodeWeight was called;
\* no GetClient call returns a client.
NothingBeforeStart ==
  starts = 0 =>
    /\ healthTicker = "nil" /\ ~tickC /\ probers = 0
    /\ \A n \in Nodes :
         /\ ~healthy[n] /\ ~Client[n] /\ failures[n] = 0
         /\ connQueued[n] = 0 /\ connDialing[n] = 0 /\ retryTimers[n] = 0
         /\ watchers[n] = 0 /\ watchersLost[n] = 0 /\ checksQueued[n] = 0
         /\ weight[n] # 1 => swRes # NoResult
    /\ okReturns = 0
    /\ \A c \in Callers : gcRes[c] # Ok /\ gcPc[c] # "update"

\* C23 witness: a GetClient call has failed for want of a healthy node on a
\* pool that was constructed and not yet started
FailedBeforeStart ==
  /\ starts = 0
  /\ ~closed
  /\ gcRes[SerialCaller] = ErrNoHealthyNodes
  /\ totalFailures > 0


\* C25: GetConnection returns the connection when it is called on a
\* connected client and the not-connected error when it is called on a
\* client that is not connected.
GetConnectionAsDocumented ==
  gconn.res # NoResult =>
    gconn.res = IF gconn.connected THEN Connection ELSE ErrNotConnected


\* C26: a Client.Connect call that returned an error has tried to establish
\* the connection MaxReconnectAttempt times.
ConnectRetriesBeforeGivingUp ==
  \A n \in Nodes : failures[n] > 0 => dials[n] >= MaxReconnectAttempt


\* clients of node n that were installed in node.Client and have not been
\* asked to close
Unclosed(n) == orphans[n] + (IF Client[n] /\ ~clClosed[n] THEN 1 ELSE 0)

\* C27: a client is replaced in node.Client only after Close was called on
\* it, so at most one client ever installed in a node has not been asked to
\* close.
OneUnclosedClient ==
  \A n \in Nodes : orphans[n] = 0 /\ Unclosed(n) <= 1

\* C27 witness: a node has had two clients installed (each launched a
\* watcher) and its current client has not been asked to close
ClientReplaced ==
  \E n \in Nodes : watchers[n] + watchersLost[n] >= 2 /\ Client[n] /\ ~clClosed[n]


\* live watchNodeConnection goroutines of node n
LiveWatchers(n) == watchers[n] + watchersLost[n]

\* C28: a watcher whose client has been replaced exits at its next poll:
\* whenever a node has more than one live watcher, it gets back to at most
\* one.
StaleWatcherExits ==
  \A n \in LiveNodes : (LiveWatchers(n) >= 2) ~> (LiveWatchers(n) <= 1)


\* C29: when a watcher writes healthy = false, the client in node.Client is
\* absent or not connected.
WatcherMarksOnlyLostClient ==
  [][\A n \in Nodes :
       watchersLost'[n] < watchersLost[n] => ~(Client[n] /\ IsConnected(n))]_vars


\* C30: a connect attempt that fails adds one to the failures of its node,
\* sets healthy false and arms one retry timer; an attempt that succeeds
\* sets healthy true and leaves failures and the timers as they are.
ConnectOutcomeAccounted ==
  [][\A n \in Nodes :
       connDialing'[n] < connDialing[n] =>
         \/ /\ failures'[n] = failures[n] + 1
            /\ ~healthy'[n]
            /\ retryTimers'[n] = retryTimers[n] + 1
            /\ Client'[n] = Client[n]
         \/ /\ failures'[n] = failures[n]
            /\ healthy'[n]
            /\ retryTimers'[n] = retryTimers[n]
            /\ Client'[n] /\ clConnected'[n]]_vars

\* C30 witness: a node whose first attempt failed was connected by the
\* retry: one failure is counted, no timer is armed, the node is healthy
FailedThenConnected ==
  \E n \in Nodes :
    /\ failures[n] = 1
    /\ healthy[n] /\ Client[n]
    /\ retryTimers[n] = 0
    /\ connDialing[n] = 0 /\ connQueued[n] = 0


\* C31: a checkNodeHealth run leaves healthy equal to (client present and
\* connected) as it found them, launches connectToNode exactly when it
\* found no client or a client that is not connected, and touches neither
\* the client nor a connect attempt.
ProberCheckOutcome ==
  [][\A n \in Nodes :
       checksQueued'[n] < checksQueued[n] =>
         /\ healthy'[n] = (Client[n] /\ IsConnected(n))
         /\ connQueued'[n] =
              connQueued[n] + (IF Client[n] /\ IsConnected(n) THEN 0 ELSE 1)
         /\ UNCHANGED <<Client, clConnected, connDialing, retryTimers, failures>>]_vars

\* C31 witness: the prober found the lost client before the watcher did:
\* the node is unhealthy and a connectToNode invocation is queued while the
\* only watcher has not noticed the loss
ProberFoundLostClient ==
  \E n \in Nodes :
    /\ Client[n] /\ ~clConnected[n] /\ ~healthy[n]
    /\ failures[n] = 0
    /\ watchers[n] = 1 /\ watchersLost[n] = 0
    /\ connQueued[n] = 1 /\ connDialing[n] = 0
    /\ checksQueued[n] = 0


\* C32: Close reads and closes the client of a node while it holds the lock
\* of that node, so never while a connectToNode run holds it.
CloseReadsClientUnderNodeLock ==
  [][teardowns' > teardowns => \A n \in Nodes : NodeMutexFree(n)]_vars


\* the step GetClient caller c takes next while it holds p.mutex.RLock
ReaderStep(c) == getHealthyNodes(c) \/ GetClientSelect(c) \/ GetClientUpdate(c)

StatsHealthyCountAgrees == GetStatsHealthyNodes = GetHealthyNodeCount


\* C35: a WeightedRoundRobin call that found healthy nodes of total weight
\* zero and fell back to RoundRobin selects a node: the healthy set its
\* fallback works on is not empty, so the call does not fail.
FallbackFindsHealthyNode ==
  \A c \in Callers : gcPc[c] = "selectRR" => Len(gcHealthy[c]) > 0

\* C38: whenever getClientWeightedRoundRobin draws, the total weight of the
\* healthy nodes is strictly positive, whatever weights SetNodeWeight stored.
DrawRangePositive ==
  \A c \in Callers :
    (/\ gcPc[c] = "select"
     /\ strategy = WeightedRoundRobin
     /\ Len(gcHealthy[c]) > 0
     /\ SumWeight(gcHealthy[c], Len(gcHealthy[c])) # 0)
    => SumWeight(gcHealthy[c], Len(gcHealthy[c])) > 0


\* C37: a node whose healthy flag is set has a client, and a node that has
\* a client keeps one: no step of the pool sets node.Client back to nil.
ClientStaysPresent ==
  /\ [](\A n \in Nodes : healthy[n] => Client[n])
  /\ [][\A n \in Nodes : Client[n] => Client'[n]]_vars

\* C37 witness: the watcher or the prober found the client of a node
\* disconnected, marked the node unhealthy and queued a reconnect; the node
\* still has its client
UnhealthyNodeKeepsClient ==
  \E n \in Nodes :
    /\ Client[n] /\ ~healthy[n] /\ ~clConnected[n]
    /\ connQueued[n] > 0
    /\ watchersLost[n] = 0


\* C39: however often Start is called, the pool never has more than one
\* live healthCheckWorker.
AtMostOneProber == probers <= 1


\* C36: between two successful connects the client dials at most
\* MaxReconnectAttempt times on behalf of reconnect, however many reconnect
\* chains run; once that many dials have failed, no reconnect is dialing
\* or about to dial and the client is not connected.  Stated for a client
\* that has not been closed.
ReconnectAttemptsBounded ==
  ~cl.closed =>
    /\ cl.tries <= MaxReconnectAttempt
    /\ cl.tries = MaxReconnectAttempt => cl.dialing = 0 /\ ~cl.connected

\* C40: once Close has returned on a client, the client is not connected.
ClosedClientStaysDisconnected == cl.closed => ~cl.connected

====
